---- MODULE Spec2Model ----
(***************************************************************************)
(* Snowflake identifiers (cnirrad/snowflake-rs): the bit layout codec of   *)
(* src/lib.rs (create_id, parse_id), the generator state machine           *)
(* (Snowflake::new, Snowflake::generate) and the thread-local clock of     *)
(* src/clock.rs (SystemTimeClock, MockClock, setup_mock_clock).            *)
(*                                                                         *)
(* A u64 is modelled by the set of the positions of its one bits           *)
(* (0 = least significant): `|` is union, `&` is intersection, `<<` and    *)
(* `>>` move the positions and drop those leaving 0..63.  u16 values and   *)
(* small quantities are integers.                                          *)
(***************************************************************************)
EXTENDS Integers, Sequences, FiniteSets, TLC

\* clock:    each thread's thread-local CLOCK
\* gens:     each generator, <<>> before it is constructed, else <<Snowflake>>
\* hist:     per generator, the last two identifiers generate returned
\* last_now: per thread, the value the last clock::get_time returned
\* op:       what the last operation was and did
\* mock_log: per thread, <<>> while the real clock is installed, else
\*           <<[start, waits]>>: the mock clock's reading when it was installed
\*           and the wait calls made on it since
\* calls:    <<>>, or <<[n, t]>> in the rollover scenario: generate calls made
\*           so far and the mock clock's initial reading
\* cin, cid, cout, cpc: a codec call's inputs, identifier, parse result, stage
VARIABLES clock, gens, hist, last_now, op, mock_log, calls, cin, cid, cout, cpc

vars == <<clock, gens, hist, last_now, op, mock_log, calls, cin, cid, cout, cpc>>

(***************************************************************************)
(* Bounds of the model.                                                    *)
(***************************************************************************)
\* Wall-clock and clock readings range over 0..MaxTime milliseconds since the epoch.
MaxTime == 1

\* The rollover scenario makes at most MaxCalls generate calls.
MaxCalls == 4098

\* The two-generator scenario makes at most MaxPairCalls generate calls.
MaxPairCalls == 5

(***************************************************************************)
(* Unsigned integers as sets of bit positions.                             *)
(***************************************************************************)
\* 2^n for 0 <= n <= 30.
Pow2Table ==
    <<1, 2, 4, 8, 16, 32, 64, 128, 256, 512, 1024, 2048, 4096, 8192, 16384, 32768,
      65536, 131072, 262144, 524288, 1048576, 2097152, 4194304, 8388608, 16777216,
      33554432, 67108864, 134217728, 268435456, 536870912, 1073741824>>

Pow2(n) == Pow2Table[n + 1]

\* The positions a u64 has.
U64Bits == 0..63

\* The positions a u16 has.
U16Bits == 0..15

\* `n as u64` for 0 <= n < 2^31: the one bits of n.
RECURSIVE BitsFrom(_, _)
BitsFrom(n, i) ==
    IF n = 0 THEN {}
    ELSE (IF n % 2 = 1 THEN {i} ELSE {}) \cup BitsFrom(n \div 2, i + 1)

AsU64(n) == BitsFrom(n, 0)

\* The integer a set of bit positions below 31 stands for.
RECURSIVE ToInt(_)
ToInt(x) ==
    IF x = {} THEN 0
    ELSE LET i == CHOOSE j \in x : TRUE IN Pow2(i) + ToInt(x \ {i})

\* u64 `x << n` (0 <= n < 64): bits shifted past position 63 are lost.
Shl(x, n) == {i + n : i \in {j \in x : j + n \in U64Bits}}

\* u64 `x >> n`.
Shr(x, n) == {i - n : i \in {j \in x : j >= n}}

\* u64 `x | y` and `x & y`.
BitOr(x, y) == x \cup y

BitAnd(x, y) == x \cap y

\* The largest element of a non-empty set of integers.
MaxOf(S) == CHOOSE m \in S : \A k \in S : k <= m

\* Unsigned comparison x < y: the highest bit they differ in is set in y.
Lt(x, y) == x # y /\ MaxOf((x \ y) \cup (y \ x)) \in y

Le(x, y) == x = y \/ Lt(x, y)

\* A generator that trusts the clock: the reading replaces the timestamp.
U64Max_second(x, y) == y

\* u64::max(x, y).
U64Max(x, y) == IF Lt(x, y) THEN y ELSE x

\* u64 `x + 1` (wrapping to 0 past 2^64 - 1, a case the bounds never reach).
PlusOne(x) ==
    LET free == U64Bits \ x IN
    IF free = {} THEN {}
    ELSE LET k == CHOOSE j \in free : \A m \in free : j <= m
         IN  (x \ (0..(k - 1))) \cup {k}

\* u64 -> u16 `try_into()`: <<value>>, or <<>> for the Err that unwrap() panics on.
TryIntoU16(x) == IF x \subseteq U16Bits THEN <<ToInt(x)>> ELSE <<>>

(***************************************************************************)
(* Natural numbers of any size, again as sets of bit positions: used only  *)
(* to state arithmetic facts about identifiers beyond 2^31.                *)
(***************************************************************************)
\* x * 2^n over the naturals (nothing is dropped).
TimesPow2(x, n) == {i + n : i \in x}

\* x + y over the naturals: sum bits are the xor, carries the and moved up one.
RECURSIVE NatAdd(_, _)
NatAdd(x, y) ==
    IF y = {} THEN x
    ELSE NatAdd((x \ y) \cup (y \ x), TimesPow2(x \cap y, 1))

\* The natural written by a sequence of decimal digits, most significant first.
RECURSIVE FromDecimal(_)
FromDecimal(ds) ==
    IF ds = <<>> THEN {}
    ELSE LET hi == FromDecimal(SubSeq(ds, 1, Len(ds) - 1))
         IN  NatAdd(NatAdd(TimesPow2(hi, 3), TimesPow2(hi, 1)), AsU64(ds[Len(ds)]))

(***************************************************************************)
(* src/lib.rs: the codec.                                                  *)
(***************************************************************************)
MAX_SEQ_NUM == 4095

\* The masks of parse_id: 0x3FF000, 0xFFF and 0x7FFFFFFFFFC00000.
NODE_MASK == 12..21

SEQ_MASK == 0..11

TS_MASK == 22..62

\* create_id with the node id shifted by 10, the width of its field.
create_id_node10(ts, node, seq) ==
    BitOr(BitOr(Shl(ts, 22), Shl(AsU64(node), 10)), AsU64(seq))

\* create_id with the timestamp shifted by 21.
create_id_ts21(ts, node, seq) ==
    BitOr(BitOr(Shl(ts, 21), Shl(AsU64(node), 12)), AsU64(seq))

\* create_id with the timestamp shifted by 12, onto the node id.
create_id_ts12(ts, node, seq) ==
    BitOr(BitOr(Shl(ts, 12), Shl(AsU64(node), 12)), AsU64(seq))

\* create_id leaving the node id out.
create_id_nodeless(ts, node, seq) == BitOr(Shl(ts, 22), AsU64(seq))

\* fn create_id(ts: u64, node: u16, seq: u16) -> u64
create_id(ts, node, seq) ==
    LET ts_bits   == Shl(ts, 22)
        node_bits == Shl(AsU64(node), 12)
    IN  BitOr(BitOr(ts_bits, node_bits), AsU64(seq))

\* parse_id with the node id shifted back by 10 only.
parse_id_node10(id) ==
    LET n16 == TryIntoU16(Shr(BitAnd(id, NODE_MASK), 10))
        s16 == TryIntoU16(BitAnd(id, SEQ_MASK))
    IN  IF n16 = <<>> \/ s16 = <<>> THEN <<>>
        ELSE <<[node_id |-> n16[1], seq_num |-> s16[1],
                ts |-> Shr(BitAnd(id, TS_MASK), 22)]>>

\* pub fn parse_id(id: u64) -> Snowflake; <<>> stands for a panic of an unwrap().
parse_id(id) ==
    LET node_id == Shr(BitAnd(id, NODE_MASK), 12)
        seq_num == BitAnd(id, SEQ_MASK)
        ts      == Shr(BitAnd(id, TS_MASK), 22)
        n16     == TryIntoU16(node_id)
        s16     == TryIntoU16(seq_num)
    IN  IF n16 = <<>> \/ s16 = <<>> THEN <<>>
        ELSE <<[node_id |-> n16[1], seq_num |-> s16[1], ts |-> ts]>>

(***************************************************************************)
(* src/clock.rs: the thread-local clock.  A clock is                       *)
(* [kind |-> "sys" | "mock", cell |-> u64]: SystemTimeClock(Cell<u64>) or  *)
(* MockClock(Cell<u64>).  SystemTime::now() is an input of the model: the  *)
(* wall reading w is `millis - EPOCH` as a signed number of milliseconds,  *)
(* w < 0 standing for a wall clock before the epoch.                       *)
(***************************************************************************)
Threads == {1, 2}

\* What SystemTime::now() may report, relative to EPOCH.
WallReadings == (-1)..MaxTime

\* CLOCK's initial value: Box::new(SystemTimeClock(Cell::new(0))).
CLOCK_init == [kind |-> "sys", cell |-> {}]

\* SystemTimeClock::get_time without the monotonic floor: the new reading is stored
\* and returned whatever the old one was.
SystemTimeClock_get_time_raw(c, w) ==
    IF w < 0 THEN [clock |-> c, ret |-> <<>>, clamped |-> FALSE]
    ELSE [clock |-> [c EXCEPT !.cell = AsU64(w)], ret |-> <<AsU64(w)>>,
          clamped |-> Lt(AsU64(w), c.cell)]

\* SystemTimeClock::get_time with a subtraction that wraps and a conversion that
\* truncates: a wall reading before the epoch becomes the largest u64.
SystemTimeClock_get_time_wrapping(c, w) ==
    LET new_ts == IF w < 0 THEN U64Bits ELSE AsU64(w)
        c2     == IF Lt(c.cell, new_ts) THEN [c EXCEPT !.cell = new_ts] ELSE c
    IN  [clock |-> c2, ret |-> <<c2.cell>>, clamped |-> Lt(new_ts, c.cell)]

\* SystemTimeClock::get_time; ret = <<>> is a panic (subtraction overflow or unwrap).
SystemTimeClock_get_time(c, w) ==
    IF w < 0 THEN [clock |-> c, ret |-> <<>>, clamped |-> FALSE]
    ELSE LET new_ts == AsU64(w)
             c2     == IF Lt(c.cell, new_ts) THEN [c EXCEPT !.cell = new_ts] ELSE c
         IN  [clock |-> c2, ret |-> <<c2.cell>>, clamped |-> Lt(new_ts, c.cell)]

\* MockClock::get_time.
MockClock_get_time(c) == [clock |-> c, ret |-> <<c.cell>>, clamped |-> FALSE]

\* clock::get_time through the Box<dyn Clock>.
get_time(c, w) ==
    IF c.kind = "mock" THEN MockClock_get_time(c) ELSE SystemTimeClock_get_time(c, w)

\* SystemTimeClock::wait: a sleep, the clock's cell is not touched.
SystemTimeClock_wait(c) == c

\* MockClock::wait leaving the cell as it is.
MockClock_wait_noop(c) == c

\* MockClock::wait.
MockClock_wait(c) == [c EXCEPT !.cell = PlusOne(c.cell)]

\* clock::wait through the Box<dyn Clock>.
wait(c) == IF c.kind = "mock" THEN MockClock_wait(c) ELSE SystemTimeClock_wait(c)

\* setup_mock_clock installing a mock clock that starts at 0.
setup_mock_clock_zero(c, w) ==
    LET r == get_time(c, w) IN
    IF r.ret = <<>> THEN r
    ELSE [clock |-> [kind |-> "mock", cell |-> {}], ret |-> r.ret, clamped |-> r.clamped]

\* setup_mock_clock: the clock after it, ret = <<>> when the read of the old clock panics.
setup_mock_clock(c, w) ==
    LET r == get_time(c, w) IN
    IF r.ret = <<>> THEN r
    ELSE [clock |-> [kind |-> "mock", cell |-> r.ret[1]], ret |-> r.ret, clamped |-> r.clamped]

(***************************************************************************)
(* src/lib.rs: the generator.                                              *)
(***************************************************************************)
\* The node ids the generator scenarios pass to Snowflake::new: the largest valid
\* one and the smallest invalid one.
NodeInputs == {1023, 1024}

\* The node ids the construction scenario passes to Snowflake::new (u16).
NewInputs == {0, 1, 5, 123, 777, 1022, 1023, 1024, 1025, 2047, 4096, 65535}

\* Snowflake::new asserting node_id <= 1024.
Snowflake_new_le(node_id) ==
    IF node_id <= 1024 THEN <<[node_id |-> node_id, seq_num |-> 0, ts |-> {}]>> ELSE <<>>

\* Snowflake::new: <<generator>>, or <<>> when assert!(node_id < 1024) panics.
Snowflake_new(node_id) ==
    IF node_id < 1024 THEN <<[node_id |-> node_id, seq_num |-> 0, ts |-> {}]>> ELSE <<>>

\* impl Default for Snowflake.
Snowflake_default == [node_id |-> 1, seq_num |-> 0, ts |-> {}]

\* Snowflake::generate testing seq_num > MAX_SEQ_NUM + 1: the sequence number
\* 4096 is handed out before the generator waits.
generate_late(self, c, w1, w2) ==
    LET r1 == get_time(c, w1) IN
    IF r1.ret = <<>>
    THEN [self |-> self, clock |-> r1.clock, ret |-> <<>>, observed |-> <<>>,
          waited |-> FALSE]
    ELSE
      LET sys_time == r1.ret[1]
          seq1     == IF self.ts = sys_time THEN (self.seq_num + 1) % 65536 ELSE 0
      IN  IF seq1 > MAX_SEQ_NUM + 1
          THEN
            LET r2 == get_time(wait(r1.clock), w2)
                s2 == [self EXCEPT !.seq_num = 0,
                                   !.ts = IF r2.ret = <<>> THEN self.ts
                                          ELSE U64Max(self.ts, r2.ret[1])]
            IN  [self |-> s2, clock |-> r2.clock,
                 ret |-> IF r2.ret = <<>> THEN <<>>
                         ELSE <<create_id(s2.ts, s2.node_id, s2.seq_num)>>,
                 observed |-> <<sys_time>> \o r2.ret, waited |-> TRUE]
          ELSE
            LET s2 == [self EXCEPT !.seq_num = seq1, !.ts = U64Max(self.ts, sys_time)]
            IN  [self |-> s2, clock |-> r1.clock,
                 ret |-> <<create_id(s2.ts, s2.node_id, s2.seq_num)>>,
                 observed |-> <<sys_time>>, waited |-> FALSE]

\* Snowflake::generate on generator self with the calling thread's clock c; w1 and
\* w2 are the wall readings of the first and (after a wait) second get_time.  The
\* result holds the generator and clock after the call, the returned id (<<>> for
\* a panic inside get_time), the readings get_time returned and whether wait ran.
generate(self, c, w1, w2) ==
    LET r1 == get_time(c, w1) IN
    IF r1.ret = <<>>
    THEN [self |-> self, clock |-> r1.clock, ret |-> <<>>, observed |-> <<>>,
          waited |-> FALSE]
    ELSE
      LET sys_time == r1.ret[1] IN
      IF self.ts = sys_time
      THEN
        LET seq1 == (self.seq_num + 1) % 65536 IN
        IF seq1 > MAX_SEQ_NUM
        THEN
          LET cw == wait(r1.clock)
              r2 == get_time(cw, w2)
          IN  IF r2.ret = <<>>
              THEN [self |-> [self EXCEPT !.seq_num = 0], clock |-> r2.clock,
                    ret |-> <<>>, observed |-> <<sys_time>>, waited |-> TRUE]
              ELSE
                LET s2 == [self EXCEPT !.seq_num = 0,
                                       !.ts = U64Max(self.ts, r2.ret[1])]
                IN  [self |-> s2, clock |-> r2.clock,
                     ret |-> <<create_id(s2.ts, s2.node_id, s2.seq_num)>>,
                     observed |-> <<sys_time, r2.ret[1]>>, waited |-> TRUE]
        ELSE
          LET s2 == [self EXCEPT !.seq_num = seq1, !.ts = U64Max(self.ts, sys_time)]
          IN  [self |-> s2, clock |-> r1.clock,
               ret |-> <<create_id(s2.ts, s2.node_id, s2.seq_num)>>,
               observed |-> <<sys_time>>, waited |-> FALSE]
      ELSE
        LET s2 == [self EXCEPT !.ts = U64Max(self.ts, sys_time), !.seq_num = 0]
        IN  [self |-> s2, clock |-> r1.clock,
             ret |-> <<create_id(s2.ts, s2.node_id, s2.seq_num)>>,
             observed |-> <<sys_time>>, waited |-> FALSE]

\* Option<u64>.
Some(id) == <<"Some", id>>

None == <<"None">>

\* Iterator::next ending the iteration when generate had to wait.
next_fused(self, c, w1, w2) ==
    LET r == generate(self, c, w1, w2) IN
    [r EXCEPT !.ret = IF r.ret = <<>> THEN <<>>
                      ELSE IF r.waited THEN <<None>> ELSE <<Some(r.ret[1])>>]

\* Iterator::next for Snowflake: the result of generate with the identifier
\* wrapped in Some (ret = <<>> when generate panics).
next(self, c, w1, w2) ==
    LET r == generate(self, c, w1, w2) IN
    [r EXCEPT !.ret = IF r.ret = <<>> THEN <<>> ELSE <<Some(r.ret[1])>>]

(***************************************************************************)
(* The operations as actions.                                              *)
(***************************************************************************)
GenIds == {1, 2}

NoOp == [name |-> "none", thread |-> 0, gen |-> 0, arg |-> 0, before |-> <<>>,
         observed |-> <<>>, waited |-> FALSE, clamped |-> FALSE, early |-> FALSE,
         ret |-> <<>>, ok |-> TRUE]

\* The history after one more identifier was returned: the previous identifier
\* and the new one.
Remember(h, id) == IF h = <<>> THEN <<id>> ELSE <<h[Len(h)], id>>

\* The wall readings that make a difference to a read of clock c.
ReadingsFor(c) == IF c.kind = "mock" THEN {0} ELSE WallReadings

\* Whether generate on self with clock c and first reading w1 reads the clock twice.
ReadsTwice(self, c, w1) ==
    LET r1 == get_time(c, w1) IN
    /\ r1.ret # <<>>
    /\ self.ts = r1.ret[1]
    /\ self.seq_num + 1 > MAX_SEQ_NUM

\* A clock within the model's window: a mock clock may be advanced one
\* millisecond past the last wall reading.
InWindow(c) == Le(c.cell, AsU64(MaxTime + 1))

\* Whether a read of clock c finds the wall clock at w before the epoch.
BeforeEpoch(c, w) == c.kind = "sys" /\ w < 0

\* The log of thread t's mock clock after one more wait on thread t.
LogWait(t) ==
    IF mock_log[t] = <<>> THEN mock_log
    ELSE [mock_log EXCEPT ![t] = <<[mock_log[t][1] EXCEPT !.waits = @ + 1]>>]

codec_unchanged == UNCHANGED <<cin, cid, cout, cpc>>

\* let g = Snowflake::new(n)
New(g, n) ==
    /\ gens[g] = <<>>
    /\ gens' = [gens EXCEPT ![g] = Snowflake_new(n)]
    /\ op' = [NoOp EXCEPT !.name = "new", !.gen = g, !.arg = n,
                          !.ok = (Snowflake_new(n) # <<>>)]
    /\ UNCHANGED <<clock, hist, last_now, mock_log, calls>>
    /\ codec_unchanged

\* let g = Snowflake::default()
Default(g) ==
    /\ gens[g] = <<>>
    /\ gens' = [gens EXCEPT ![g] = <<Snowflake_default>>]
    /\ op' = [NoOp EXCEPT !.name = "default", !.gen = g]
    /\ UNCHANGED <<clock, hist, last_now, mock_log, calls>>
    /\ codec_unchanged

\* g.generate() called on thread t.
Generate(g, t) ==
    /\ gens[g] # <<>>
    /\ \E w1 \in ReadingsFor(clock[t]) :
         \E w2 \in (IF ReadsTwice(gens[g][1], clock[t], w1)
                    THEN ReadingsFor(clock[t]) ELSE {w1}) :
           \E r \in {generate(gens[g][1], clock[t], w1, w2)} :
           /\ InWindow(r.clock)
           /\ gens' = [gens EXCEPT ![g] = <<r.self>>]
           /\ clock' = [clock EXCEPT ![t] = r.clock]
           /\ hist' = IF r.ret = <<>> THEN hist
                      ELSE [hist EXCEPT ![g] = Remember(hist[g], r.ret[1])]
           /\ last_now' = IF r.observed = <<>> THEN last_now
                          ELSE [last_now EXCEPT ![t] = <<r.observed[Len(r.observed)]>>]
           /\ op' = [NoOp EXCEPT !.name = "generate", !.thread = t, !.gen = g,
                                 !.before = gens[g], !.observed = r.observed,
                                 !.waited = r.waited,
                                 !.early = (BeforeEpoch(clock[t], w1)
                                              \/ BeforeEpoch(clock[t], w2)),
                                 !.ret = r.ret, !.ok = (r.ret # <<>>)]
           /\ mock_log' = IF r.waited THEN LogWait(t) ELSE mock_log
    /\ IF calls = <<>> THEN TRUE ELSE calls[1].n < MaxCalls
    /\ calls' = IF calls = <<>> THEN calls ELSE <<[calls[1] EXCEPT !.n = @ + 1]>>
    /\ codec_unchanged

\* g.next() called on thread t.
IterNext(g, t) ==
    /\ gens[g] # <<>>
    /\ \E w1 \in ReadingsFor(clock[t]) :
         \E w2 \in (IF ReadsTwice(gens[g][1], clock[t], w1)
                    THEN ReadingsFor(clock[t]) ELSE {w1}) :
           \E r \in {next(gens[g][1], clock[t], w1, w2)} :
           /\ InWindow(r.clock)
           /\ gens' = [gens EXCEPT ![g] = <<r.self>>]
           /\ clock' = [clock EXCEPT ![t] = r.clock]
           /\ hist' = IF r.ret = <<>> \/ r.ret = <<None>> THEN hist
                      ELSE [hist EXCEPT ![g] = Remember(hist[g], r.ret[1][2])]
           /\ last_now' = IF r.observed = <<>> THEN last_now
                          ELSE [last_now EXCEPT ![t] = <<r.observed[Len(r.observed)]>>]
           /\ op' = [NoOp EXCEPT !.name = "next", !.thread = t, !.gen = g,
                                 !.before = gens[g], !.observed = r.observed,
                                 !.waited = r.waited,
                                 !.early = (BeforeEpoch(clock[t], w1)
                                              \/ BeforeEpoch(clock[t], w2)),
                                 !.ret = r.ret, !.ok = (r.ret # <<>>)]
           /\ mock_log' = IF r.waited THEN LogWait(t) ELSE mock_log
    /\ IF calls = <<>> THEN TRUE ELSE calls[1].n < MaxCalls
    /\ calls' = IF calls = <<>> THEN calls ELSE <<[calls[1] EXCEPT !.n = @ + 1]>>
    /\ codec_unchanged

\* clock::get_time() called on thread t.
GetTime(t) ==
    /\ \E w \in ReadingsFor(clock[t]) :
         LET r == get_time(clock[t], w) IN
         /\ clock' = [clock EXCEPT ![t] = r.clock]
         /\ last_now' = IF r.ret = <<>> THEN last_now ELSE [last_now EXCEPT ![t] = r.ret]
         /\ op' = [NoOp EXCEPT !.name = "get_time", !.thread = t, !.observed = r.ret,
                               !.clamped = r.clamped,
                               !.early = BeforeEpoch(clock[t], w), !.ret = r.ret,
                               !.ok = (r.ret # <<>>)]
    /\ UNCHANGED <<gens, hist, mock_log, calls>>
    /\ codec_unchanged

\* clock::wait() called on thread t.
Wait(t) ==
    /\ InWindow(wait(clock[t]))
    /\ clock' = [clock EXCEPT ![t] = wait(clock[t])]
    /\ op' = [NoOp EXCEPT !.name = "wait", !.thread = t, !.waited = TRUE]
    /\ mock_log' = LogWait(t)
    /\ UNCHANGED <<gens, hist, last_now, calls>>
    /\ codec_unchanged

\* clock::setup_mock_clock() called on thread t.
SetupMock(t) ==
    /\ \E w \in ReadingsFor(clock[t]) :
         LET r == setup_mock_clock(clock[t], w) IN
         /\ clock' = [clock EXCEPT ![t] = r.clock]
         /\ last_now' = IF r.ret = <<>> THEN last_now ELSE [last_now EXCEPT ![t] = r.ret]
         /\ op' = [NoOp EXCEPT !.name = "setup_mock_clock", !.thread = t,
                               !.observed = r.ret,
                               !.early = BeforeEpoch(clock[t], w),
                               !.ok = (r.ret # <<>>)]
         /\ mock_log' = IF r.ret = <<>> THEN mock_log
                         ELSE [mock_log EXCEPT ![t] = <<[start |-> r.ret[1], waits |-> 0]>>]
    /\ UNCHANGED <<gens, hist, calls>>
    /\ codec_unchanged

(***************************************************************************)
(* Spec: one generator used from one thread.                               *)
(***************************************************************************)
Init ==
    /\ clock = [t \in Threads |-> CLOCK_init]
    /\ gens = [g \in GenIds |-> <<>>]
    /\ hist = [g \in GenIds |-> <<>>]
    /\ last_now = [t \in Threads |-> <<>>]
    /\ op = NoOp
    /\ mock_log = [t \in Threads |-> <<>>]
    /\ calls = <<>>
    /\ cin = <<>>
    /\ cid = <<>>
    /\ cout = <<>>
    /\ cpc = "idle"

Next ==
    \/ \E n \in NodeInputs : New(1, n)
    \/ Generate(1, 1)
    \/ SetupMock(1)

Spec == Init /\ [][Next]_vars

(***************************************************************************)
(* SpecMT: one generator handed between two threads, each thread reading   *)
(* its own thread-local CLOCK (the real one).                              *)
(***************************************************************************)
NextMT ==
    \/ \E n \in NodeInputs : New(1, n)
    \/ \E t \in Threads : Generate(1, t)

SpecMT == Init /\ [][NextMT]_vars

(***************************************************************************)
(* SpecNew: construction of generators.                                    *)
(***************************************************************************)
NextNew ==
    \/ \E g \in GenIds, n \in NewInputs : New(g, n)
    \/ \E g \in GenIds : Default(g)

SpecNew == Init /\ [][NextNew]_vars

(***************************************************************************)
(* SpecRollover: the scenario of tests::test_ms_rollover.  The mock clock  *)
(* was installed on thread 1 at a reading t, a generator was constructed,  *)
(* and generate is called again and again; calls counts the calls.         *)
(***************************************************************************)
RolloverNodes == {0, 123, 1023}

InitRollover ==
    /\ \E t \in 0..MaxTime :
         /\ clock = [th \in Threads |->
                       IF th = 1 THEN setup_mock_clock(CLOCK_init, t).clock
                       ELSE CLOCK_init]
         /\ mock_log = [th \in Threads |->
                          IF th = 1 THEN <<[start |-> AsU64(t), waits |-> 0]>> ELSE <<>>]
         /\ calls = <<[n |-> 0, t |-> AsU64(t)]>>
    /\ \E node \in RolloverNodes :
         gens = [g \in GenIds |-> IF g = 1 THEN Snowflake_new(node) ELSE <<>>]
    /\ hist = [g \in GenIds |-> <<>>]
    /\ last_now = [th \in Threads |-> <<>>]
    /\ op = NoOp
    /\ cin = <<>>
    /\ cid = <<>>
    /\ cout = <<>>
    /\ cpc = "idle"

NextRollover == Generate(1, 1)

SpecRollover == InitRollover /\ [][NextRollover]_vars

(***************************************************************************)
(* SpecThread: one generator and the clock functions called from one       *)
(* thread, in any order.                                                   *)
(***************************************************************************)
NextThread ==
    \/ \E n \in NodeInputs : New(1, n)
    \/ Generate(1, 1)
    \/ Wait(1)
    \/ SetupMock(1)

SpecThread == Init /\ [][NextThread]_vars

(***************************************************************************)
(* SpecRead: one generator on one thread that also reads the real clock    *)
(* directly.                                                               *)
(***************************************************************************)
NextRead ==
    \/ \E n \in NodeInputs : New(1, n)
    \/ Generate(1, 1)
    \/ GetTime(1)

SpecRead == Init /\ [][NextRead]_vars

(***************************************************************************)
(* SpecIter: one generator on one thread, used through generate and as an  *)
(* iterator.                                                               *)
(***************************************************************************)
NextIter ==
    \/ \E n \in NodeInputs : New(1, n)
    \/ Generate(1, 1)
    \/ IterNext(1, 1)

SpecIter == Init /\ [][NextIter]_vars

(***************************************************************************)
(* SpecTwo: two generators with different node ids, each called from       *)
(* either thread, so that they share a clock or not.  Thread 1 has the     *)
(* real clock or a mock clock; each generator is fresh or has returned the *)
(* identifiers of millisecond 0 up to sequence number PairSeqs.            *)
(***************************************************************************)
NodePairs == {<<0, 1>>, <<1023, 512>>}

PairSeqs == {0, 4094}

\* The generator Snowflake::new(n) has become after the generate calls that
\* read clock value 0 and returned sequence numbers 1..seq.
StartedAt(n, seq) == [Snowflake_new(n)[1] EXCEPT !.seq_num = seq]

\* The identifiers such a generator returned last.
StartedHist(n, seq) ==
    IF seq = 0 THEN <<>>
    ELSE <<create_id({}, n, seq - 1), create_id({}, n, seq)>>

InitTwo ==
    /\ \E c \in {CLOCK_init} \cup {setup_mock_clock(CLOCK_init, t).clock : t \in 0..MaxTime} :
         /\ clock = [th \in Threads |-> IF th = 1 THEN c ELSE CLOCK_init]
         /\ mock_log = [th \in Threads |->
                          IF th = 1 /\ c.kind = "mock"
                          THEN <<[start |-> c.cell, waits |-> 0]>> ELSE <<>>]
         /\ calls = <<[n |-> 0, t |-> c.cell]>>
    /\ \E np \in NodePairs : \E s1, s2 \in PairSeqs :
         /\ gens = <<<<StartedAt(np[1], s1)>>, <<StartedAt(np[2], s2)>>>>
         /\ hist = <<StartedHist(np[1], s1), StartedHist(np[2], s2)>>
    /\ last_now = [th \in Threads |-> <<>>]
    /\ op = NoOp
    /\ cin = <<>>
    /\ cid = <<>>
    /\ cout = <<>>
    /\ cpc = "idle"

NextTwo ==
    \E g \in GenIds, t \in Threads :
      /\ calls[1].n < MaxPairCalls
      /\ Generate(g, t)

SpecTwo == InitTwo /\ [][NextTwo]_vars

(***************************************************************************)
(* SpecClock: the clock module alone, on two threads.                      *)
(***************************************************************************)
NextClock ==
    \/ \E t \in Threads : GetTime(t)
    \/ \E t \in Threads : Wait(t)
    \/ \E t \in Threads : SetupMock(t)

SpecClock == Init /\ [][NextClock]_vars

(***************************************************************************)
(* SpecCodec: create_id and parse_id as pure functions of their inputs.    *)
(***************************************************************************)
\* 2^n as a u64, and the u64 with bits 0..n-1 set (2^n - 1).
Bit(n) == {n}

LowBits(n) == 0..(n - 1)

\* Timestamps (u64): 0, 1, 123456789, 2^41 - 1, 2^41, 2^42 - 1, 2^42, 2^63, 2^64 - 1
\* and two mixed patterns.
TsInputs ==
    { {}, Bit(0), AsU64(123456789), LowBits(41), Bit(41), LowBits(42), Bit(42),
      Bit(63), LowBits(64), {0, 20, 40}, {3, 41, 50} }

\* Node ids and sequence numbers (u16).
NodeIdInputs == {0, 1, 777, 1023, 1024, 1025, 65535}

SeqInputs == {0, 1, 1234, 4095, 4096, 4097, 65535}

\* Identifiers handed to parse_id that no create_id call made.
IdInputs ==
    { {}, LowBits(64), Bit(63), Bit(62), Bit(22), Bit(21), Bit(12), Bit(11),
      LowBits(12), 12..21, 22..62, 22..63, {0, 12, 22, 63}, {5, 17, 30, 62} }

\* let id = create_id(ts, node, seq)
Encode(ts, node, seq) ==
    /\ cpc = "idle"
    /\ cin' = <<[ts |-> ts, node |-> node, seq |-> seq]>>
    /\ cid' = <<create_id(ts, node, seq)>>
    /\ cpc' = "encoded"
    /\ UNCHANGED <<cout, clock, gens, hist, last_now, op, mock_log, calls>>

\* let s = parse_id(id), of the identifier create_id returned
Decode ==
    /\ cpc = "encoded"
    /\ cout' = parse_id(cid[1])
    /\ cpc' = "decoded"
    /\ UNCHANGED <<cin, cid, clock, gens, hist, last_now, op, mock_log, calls>>

\* let s = parse_id(id), of any u64
Parse(id) ==
    /\ cpc = "idle"
    /\ cid' = <<id>>
    /\ cout' = parse_id(id)
    /\ cpc' = "parsed"
    /\ UNCHANGED <<cin, clock, gens, hist, last_now, op, mock_log, calls>>

NextCodec ==
    \/ \E ts \in TsInputs, node \in NodeIdInputs, seq \in SeqInputs : Encode(ts, node, seq)
    \/ Decode
    \/ \E id \in IdInputs : Parse(id)

SpecCodec == Init /\ [][NextCodec]_vars

(***************************************************************************)
(* Properties.                                                             *)
(***************************************************************************)
\* The Snowflake parse_id reads from an identifier generate returned.
Parsed(id) == parse_id(id)[1]

\* The pairs of positions i < j of a generator's history.
HistPairs(g) == {p \in (1..Len(hist[g])) \X (1..Len(hist[g])) : p[1] < p[2]}

\* x fits in n bits.
Fits(x, n) == x \subseteq LowBits(n)

\* C1: on one generator used from one thread, every identifier generate returns
\* is strictly greater than the one the previous call returned.
C1_StrictlyIncreasing ==
    \A g \in GenIds : \A i \in 1..(Len(hist[g]) - 1) : Lt(hist[g][i], hist[g][i + 1])

\* C2: a generator never returns two identifiers that decode to the same
\* (timestamp, sequence) pair, also when a clock reading is below its timestamp
\* (stated over the identifiers the history keeps: two successive ones).
C2_NoPairReuse ==
    \A g \in GenIds : \A p \in HistPairs(g) :
      <<Parsed(hist[g][p[1]]).ts, Parsed(hist[g][p[1]]).seq_num>>
        # <<Parsed(hist[g][p[2]]).ts, Parsed(hist[g][p[2]]).seq_num>>

\* C3: the timestamp a returned identifier decodes to is never below the one the
\* previous identifier decodes to, and generate never lowers the generator's ts,
\* whatever the clock reports.
C3_TimestampNeverRegresses ==
    /\ \A g \in GenIds : \A i \in 1..(Len(hist[g]) - 1) :
         Le(Parsed(hist[g][i]).ts, Parsed(hist[g][i + 1]).ts)
    /\ op.name = "generate" => Le(op.before[1].ts, gens[op.gen][1].ts)

\* C3's case: generate returned an identifier after the clock reported a reading
\* below the generator's timestamp, and an earlier identifier is on record.
C3_Witness ==
    /\ op.name = "generate"
    /\ op.ret # <<>>
    /\ Lt(op.observed[1], op.before[1].ts)
    /\ Len(hist[op.gen]) >= 2

\* C4: with the mock clock at a constant reading t, a fresh generator's calls
\* 1..4096 return sequence numbers 0..4095 with timestamp t, and call 4097
\* returns timestamp t + 1 with sequence number 0.
C4_Rollover ==
    (calls # <<>> /\ op.name = "generate") =>
      LET k == calls[1].n
          t == calls[1].t
      IN  /\ op.ret # <<>>
          /\ k \in 1..(MAX_SEQ_NUM + 1) =>
               /\ Parsed(op.ret[1]).seq_num = k - 1
               /\ Parsed(op.ret[1]).ts = t
          /\ k = MAX_SEQ_NUM + 2 =>
               /\ Parsed(op.ret[1]).seq_num = 0
               /\ Parsed(op.ret[1]).ts = PlusOne(t)

\* The inputs of the codec call in progress.
InNode == cin[1].node

InSeq == cin[1].seq

InTs == cin[1].ts

ExampleTs == AsU64(123456789)

ExampleId == FromDecimal(<<5, 1, 7, 8, 1, 5, 3, 0, 7, 1, 1, 3, 6, 8, 2>>)

IsExample == cin = <<[ts |-> ExampleTs, node |-> 777, seq |-> 1234]>>

\* C6: for in-range inputs create_id(ts, node, seq) is ts * 2^22 + node * 2^12 + seq,
\* with ts in bits 63-22, node in bits 21-12 and seq in bits 11-0;
\* create_id(123456789, 777, 1234) is 517815307113682, which parse_id reads as
\* (123456789, 777, 1234).
C6_Layout ==
    /\ (cpc \in {"encoded", "decoded"} /\ InNode <= 1023 /\ InSeq <= MAX_SEQ_NUM
          /\ Fits(InTs, 42)) =>
         /\ cid[1] = NatAdd(NatAdd(TimesPow2(InTs, 22), TimesPow2(AsU64(InNode), 12)),
                            AsU64(InSeq))
         /\ BitAnd(cid[1], 22..63) = TimesPow2(InTs, 22)
         /\ BitAnd(cid[1], 12..21) = TimesPow2(AsU64(InNode), 12)
         /\ BitAnd(cid[1], 0..11) = AsU64(InSeq)
    /\ (cpc \in {"encoded", "decoded"} /\ IsExample) => cid[1] = ExampleId
    /\ (cpc = "decoded" /\ cid[1] = ExampleId) =>
         cout = <<[node_id |-> 777, seq_num |-> 1234, ts |-> ExampleTs]>>

\* C6's case: the example went through create_id and parse_id.
C6_Witness == cpc = "decoded" /\ IsExample /\ cid[1] = ExampleId

\* C7: create_id called with a field beyond its width (node >= 1024, seq >= 4096
\* or ts of 2^42 or more) returns no identifier.
C7_OutOfRangeRejected ==
    (cpc \in {"encoded", "decoded"}
       /\ (InNode > 1023 \/ InSeq > MAX_SEQ_NUM \/ ~Fits(InTs, 42))) => cid = <<>>

\* C8: Snowflake::new with node_id >= 1024 fails and leaves no generator; with
\* node_id <= 1023 it gives a generator with that node_id, ts = 0 and seq_num = 0;
\* every generator there is has node_id <= 1023.
C8_Construction ==
    /\ op.name = "new" =>
         IF op.arg >= 1024
         THEN ~op.ok /\ gens[op.gen] = <<>>
         ELSE op.ok /\ gens[op.gen] = <<[node_id |-> op.arg, seq_num |-> 0, ts |-> {}]>>
    /\ \A g \in GenIds : gens[g] # <<>> => gens[g][1].node_id <= 1023

\* C8's case: generator 1 was constructed with the largest node id, then the
\* construction of generator 2 with node id 1024 was rejected.
C8_Witness ==
    /\ op.name = "new"
    /\ op.gen = 2
    /\ op.arg = 1024
    /\ ~op.ok
    /\ gens[2] = <<>>
    /\ gens[1] # <<>>
    /\ gens[1][1].node_id = 1023

ReadStep(t) ==
    /\ op'.thread = t
    /\ op'.name \in {"get_time", "setup_mock_clock", "generate"}
    /\ op'.observed # <<>>

\* C10: on the real clock, every value get_time returns is at least the value the
\* previous get_time on that thread returned, whatever the wall clock reports.
C10_NowNonDecreasing ==
    [][\A t \in Threads :
         (clock[t].kind = "sys" /\ last_now[t] # <<>> /\ ReadStep(t)) =>
           /\ Le(last_now[t][1], op'.observed[1])
           /\ \A i \in 1..(Len(op'.observed) - 1) :
                Le(op'.observed[i], op'.observed[i + 1])]_vars

\* C10's case: the real clock was read when the wall clock had gone back below
\* the highest reading seen, and returned that highest reading.
C10_Witness ==
    /\ op.name = "get_time"
    /\ op.ok
    /\ op.clamped
    /\ clock[op.thread].kind = "sys"
    /\ op.ret = <<clock[op.thread].cell>>
    /\ op.ret # <<{}>>

\* Thread t's last operation was a wait, after an earlier read of its clock.
AfterWait(t) ==
    /\ op.name = "wait"
    /\ op.thread = t
    /\ last_now[t] # <<>>

\* C11: the first get_time after a wait returns a value strictly greater than the
\* get_time before the wait returned, on the real clock as on the mock clock.
C11_WaitAdvances ==
    [][\A t \in Threads :
         (AfterWait(t) /\ op'.name = "get_time" /\ op'.thread = t /\ op'.ok) =>
           Lt(last_now[t][1], op'.ret[1])]_vars

\* C12: on the mock clock, get_time returns the cell and leaves the clock as it
\* is, wait adds exactly 1 to the cell, and get_time after k waits returns the
\* reading the mock clock was installed with plus k.
C12_MockClock ==
    [][\A t \in Threads :
         (clock[t].kind = "mock" /\ op'.thread = t) =>
           /\ op'.name = "get_time" =>
                /\ op'.ret = <<clock[t].cell>>
                /\ clock'[t] = clock[t]
                /\ op'.ret[1] = NatAdd(mock_log[t][1].start, AsU64(mock_log[t][1].waits))
           /\ op'.name = "wait" =>
                /\ clock'[t] = [kind |-> "mock", cell |-> PlusOne(clock[t].cell)]
                /\ mock_log'[t][1].waits = mock_log[t][1].waits + 1]_vars

\* C12's case: the mock clock was installed at 0, wait was called twice and
\* get_time returns 2.
C12_Witness ==
    /\ op.name = "get_time"
    /\ clock[op.thread].kind = "mock"
    /\ mock_log[op.thread] = <<[start |-> {}, waits |-> 2]>>
    /\ op.ret = <<AsU64(2)>>
    /\ last_now[op.thread] = op.ret

\* C13: a get_time of the real clock that finds the wall clock before the epoch
\* panics and returns no value, and a generate that made such a read returns no
\* identifier.
C13_PanicBeforeEpoch ==
    [][op'.early =>
         /\ ~op'.ok
         /\ op'.ret = <<>>
         /\ op'.name = "get_time" => (op'.observed = <<>> /\ last_now' = last_now)
         /\ hist' = hist]_vars

\* C13's case: generate exhausted the sequence numbers, waited, and its second
\* read of the real clock found the wall clock before the epoch.
C13_Witness ==
    /\ op.name = "generate"
    /\ op.early
    /\ op.waited
    /\ ~op.ok
    /\ clock[op.thread].kind = "sys"

\* The step is one call of generate on generator g from thread t that returns id.
OneGenerate(g, t, id) ==
    \E w1, w2 \in ReadingsFor(clock[t]) :
      \E r \in {generate(gens[g][1], clock[t], w1, w2)} :
        /\ r.ret = <<id>>
        /\ gens'[g] = <<r.self>>
        /\ clock'[t] = r.clock

\* C14: every next() that returns, returns Some(id), never None, where id is
\* what one generate call on the generator returns, and leaves the generator and
\* the clock as that one call leaves them.
C14_IteratorNeverEnds ==
    [][(op'.name = "next" /\ op'.ok) =>
         /\ op'.ret # <<None>>
         /\ op'.ret[1][1] = "Some"
         /\ OneGenerate(op'.gen, op'.thread, op'.ret[1][2])]_vars

\* C14's case: the generator was pulled beyond the 4096 identifiers of one
\* millisecond, and the pull that had to wait returned Some.
C14_Witness ==
    /\ op.name = "next"
    /\ op.waited
    /\ op.ret # <<>>
    /\ op.ret[1][1] = "Some"
    /\ Len(hist[op.gen]) = 2
    /\ hist[op.gen][2] = op.ret[1][2]

\* C15: a generate that hit sequence exhaustion (and waited) ends with
\* seq_num = 0 and with ts strictly greater than ts before the call.
C15_ExhaustionProgress ==
    (op.name = "generate" /\ op.waited /\ op.ok) =>
      /\ gens[op.gen][1].seq_num = 0
      /\ Lt(op.before[1].ts, gens[op.gen][1].ts)

\* C16: one generate call waits at most once (the mock clock moves by at most
\* one wait), and it waits only as the 4097th or a later call made within the
\* millisecond the mock clock was installed at.
C16_WaitOnlyAfter4096 ==
    [][(calls # <<>> /\ op'.name = "generate") =>
         /\ clock'[1].cell \in {clock[1].cell, PlusOne(clock[1].cell)}
         /\ op'.waited <=> (clock'[1].cell # clock[1].cell)
         /\ op'.waited => calls'[1].n >= MAX_SEQ_NUM + 2]_vars

\* C17: between generate calls every generator's seq_num is within 0..4095, and
\* the sequence field of the identifier a call returned equals seq_num after
\* that call.
C17_SeqInRange ==
    /\ \A g \in GenIds : gens[g] # <<>> => gens[g][1].seq_num \in 0..4095
    /\ (op.name = "generate" /\ op.ok) =>
         Parsed(op.ret[1]).seq_num = gens[op.gen][1].seq_num

\* C17's case: the call after the identifier with sequence field 4095 hit
\* exhaustion and returned an identifier with sequence field 0.
C17_Witness ==
    /\ op.name = "generate"
    /\ op.ok
    /\ op.waited
    /\ op.before[1].seq_num = 4095
    /\ gens[op.gen][1].seq_num = 0
    /\ Len(hist[op.gen]) = 2
    /\ Parsed(hist[op.gen][1]).seq_num = 4095
    /\ Parsed(hist[op.gen][2]).seq_num = 0

\* C18: generate leaves the generator's node_id as it is, the identifier it
\* returns decodes to that node_id, and so does the identifier made of the
\* generator's node_id and seq_num and any timestamp.
C18_NodeIdKept ==
    /\ op.name = "generate" =>
         /\ gens[op.gen][1].node_id = op.before[1].node_id
         /\ op.ok => Parsed(op.ret[1]).node_id = op.before[1].node_id
    /\ \A g \in GenIds : gens[g] # <<>> =>
         \A ts \in TsInputs :
           Parsed(create_id(ts, gens[g][1].node_id, gens[g][1].seq_num)).node_id
             = gens[g][1].node_id

\* C18's case: a generator constructed with node id 123 returned an identifier
\* with sequence field 4095 and then one with a later timestamp.
C18_Witness ==
    /\ op.name = "generate"
    /\ op.ok
    /\ op.waited
    /\ op.before[1].node_id = 123
    /\ Len(hist[op.gen]) = 2
    /\ Parsed(hist[op.gen][1]).node_id = 123
    /\ Parsed(hist[op.gen][1]).seq_num = 4095
    /\ Parsed(hist[op.gen][2]).node_id = 123
    /\ Lt(Parsed(hist[op.gen][1]).ts, Parsed(hist[op.gen][2]).ts)

\* The values a get_time on thread t can return now.
NowValues(t) ==
    {get_time(clock[t], w).ret[1] :
       w \in {x \in ReadingsFor(clock[t]) : get_time(clock[t], x).ret # <<>>}}

\* C19: a generator used from one thread only is never ahead of that thread's
\* clock: after every generate its ts, and the timestamp of the identifier
\* returned, are at most what get_time returns then, whatever generate, wait and
\* setup_mock_clock calls were made on the thread.
C19_NotAheadOfClock ==
    /\ gens[1] # <<>> => \A now \in NowValues(1) : Le(gens[1][1].ts, now)
    /\ (op.name = "generate" /\ op.ok) =>
         \A now \in NowValues(op.thread) : Le(Parsed(op.ret[1]).ts, now)

\* C19's case: the mock clock was installed and advanced by wait, and a generate
\* after that returned an identifier carrying the clock's reading.
C19_Witness ==
    /\ op.name = "generate"
    /\ op.ok
    /\ ~op.waited
    /\ clock[1].kind = "mock"
    /\ mock_log[1] # <<>>
    /\ mock_log[1][1].waits >= 1
    /\ Parsed(op.ret[1]).ts = clock[1].cell
    /\ Lt(op.before[1].ts, gens[1][1].ts)

\* C20: two generators with different node ids never return the same
\* identifier, whether they read the same clock or not: no identifier on
\* record for one equals one on record for the other, and every identifier on
\* record decodes to the node id of the generator that returned it.
C20_DistinctAcrossNodes ==
    (gens[1] # <<>> /\ gens[2] # <<>> /\ gens[1][1].node_id # gens[2][1].node_id) =>
      /\ \A i \in 1..Len(hist[1]) : \A j \in 1..Len(hist[2]) : hist[1][i] # hist[2][j]
      /\ \A g \in GenIds : \A i \in 1..Len(hist[g]) :
           Parsed(hist[g][i]).node_id = gens[g][1].node_id

\* C20's case: the two generators share thread 1's mock clock, a wait made by
\* one of them at exhaustion moved it, and both then returned an identifier with
\* the clock's reading and the same sequence number.
C20_Witness ==
    /\ gens[1] # <<>>
    /\ gens[2] # <<>>
    /\ gens[1][1].node_id # gens[2][1].node_id
    /\ clock[1].kind = "mock"
    /\ mock_log[1] # <<>>
    /\ mock_log[1][1].waits >= 1
    /\ hist[1] # <<>>
    /\ hist[2] # <<>>
    /\ Parsed(hist[1][Len(hist[1])]).ts = clock[1].cell
    /\ Parsed(hist[2][Len(hist[2])]).ts = clock[1].cell
    /\ Parsed(hist[1][Len(hist[1])]).seq_num = Parsed(hist[2][Len(hist[2])]).seq_num

====
